---- MODULE Spec2Model ----
(***************************************************************************)
(* Model of browserstack/local.py: the LocalSingleton lifecycle controller *)
(* (construction, start, is_running, stop, scoped use) together with the   *)
(* command builder and the handshake decoding done inside start.           *)
(*                                                                         *)
(* Python values are records [t |-> type name, v |-> str(value)], so that   *)
(* str(), truthiness and "is None" are computed as the interpreter does.   *)
(* A dict is a sequence of [k, v] entries in insertion order.              *)
(***************************************************************************)
EXTENDS Integers, Sequences, FiniteSets, TLC

VARIABLES environ, klass, lock, threads, initialized, self, last, lastConnected,
          hist, scope, ops

vars == <<environ, klass, lock, threads, initialized, self, last, lastConnected,
          hist, scope, ops>>

(***************************************************************************)
(* Bounds of the model.                                                    *)
(***************************************************************************)
\* number of operations performed on the singleton in one behaviour
MaxOps == 3
\* process identifiers the daemon may report and the host may run: 1..MaxPid
MaxPid == 2
MaxThreads == 2

(***************************************************************************)
(* Python values.                                                          *)
(***************************************************************************)
PyStr(s) == [t |-> "str", v |-> s]
PyNone == [t |-> "NoneType", v |-> "None"]
PyTrue == [t |-> "bool", v |-> "True"]
PyFalse == [t |-> "bool", v |-> "False"]
PyInt(s) == [t |-> "int", v |-> s]

\* str(value)
str(value) == value.v

\* str.lower() on the strings the model draws values from
lower(s) ==
    CASE s = "True" -> "true"
      [] s = "TRUE" -> "true"
      [] s = "False" -> "false"
      [] s = "FALSE" -> "false"
      [] s = "None" -> "none"
      [] OTHER -> s

\* truth value of a Python object in a boolean context
truthy(value) ==
    CASE value.t = "bool" -> value.v = "True"
      [] value.t = "NoneType" -> FALSE
      [] value.t = "str" -> value.v # ""
      [] value.t = "int" -> value.v # "0"
      [] OTHER -> TRUE

(***************************************************************************)
(* dict: insertion-ordered sequence of entries.                            *)
(***************************************************************************)
dict_keys(d) == {d[i].k : i \in 1..Len(d)}

dict_has(d, key) == key \in dict_keys(d)

dict_get(d, key) ==
    IF dict_has(d, key)
    THEN d[CHOOSE i \in 1..Len(d) : d[i].k = key].v
    ELSE PyNone

\* d[key] = value: an existing key keeps its position, a new key is appended
dict_set(d, key, value) ==
    IF dict_has(d, key)
    THEN [i \in 1..Len(d) |-> IF d[i].k = key THEN [k |-> key, v |-> value] ELSE d[i]]
    ELSE Append(d, [k |-> key, v |-> value])

\* del d[key]
dict_del(d, key) == SelectSeq(d, LAMBDA e : e.k # key)

RECURSIVE dict_update(_, _)
\* for k, v in kwargs.items(): d[k] = v
dict_update(d, kwargs) ==
    IF kwargs = <<>> THEN d
    ELSE dict_update(dict_set(d, Head(kwargs).k, Head(kwargs).v), Tail(kwargs))

(***************************************************************************)
(* Argument builder and command construction.                              *)
(***************************************************************************)
\* LocalSingleton.__xstr (the key is never None at its only call site)
__xstr(key, value) ==
    IF lower(str(value)) = "true" THEN <<PyStr("-" \o key)>>
    ELSE IF lower(str(value)) = "false" THEN <<PyStr("")>>
    ELSE <<PyStr("-" \o key), value>>

\* LocalSingleton.get_package_version: the installed version, or "None"
get_package_version == "None"

RECURSIVE option_tokens(_)
\* the loop of _generate_cmd over self.options
option_tokens(options) ==
    IF options = <<>> THEN <<>>
    ELSE (IF Head(options).v # PyNone
          THEN __xstr(Head(options).k, Head(options).v)
          ELSE <<>>) \o option_tokens(Tail(options))

\* LocalSingleton._generate_cmd
_generate_cmd(s) ==
    << s.binary_path, PyStr("-d"), PyStr("start"), PyStr("-logFile"),
       s.local_logfile_path, PyStr("-k"), s.key, PyStr("--source"),
       PyStr("python:" \o get_package_version) >>
    \o option_tokens(s.options)

\* a mutant of _generate_stop_cmd: the stop command is built without the options
stop_cmd_without_options(s) ==
    [_generate_cmd([s EXCEPT !.options = <<>>]) EXCEPT ![3] = PyStr("stop")]

\* LocalSingleton._generate_stop_cmd (cmd[2] of the 0-based list is element 3)
_generate_stop_cmd(s) == [_generate_cmd(s) EXCEPT ![3] = PyStr("stop")]

(***************************************************************************)
(* Exceptions.                                                             *)
(***************************************************************************)
NoExc == [cls |-> "none", msg |-> ""]
Exc(cls, msg) == [cls |-> cls, msg |-> msg]

(***************************************************************************)
(* What the daemon can write on a stream, and its decoding.                *)
(***************************************************************************)
\* decoded JSON values: t is the Python type, v the str() form, n the number
\* of an int, d the mapping of a dict
JStr(s) == [t |-> "str", v |-> s, n |-> 0, d |-> <<>>]
JInt(i) == [t |-> "int", v |-> ToString(i), n |-> i, d |-> <<>>]
JList == [t |-> "list", v |-> "[1]", n |-> 0, d |-> <<>>]
JNull == [t |-> "NoneType", v |-> "None", n |-> 0, d |-> <<>>]
JDict(f) == [t |-> "dict", v |-> "{...}", n |-> 0, d |-> f]

Pids == 1..MaxPid

B_empty == ""
\* bytes that are not valid UTF-8
B_undecodable == "\\xff"
B_not_json == "not json"
B_list == "[1]"
B_no_state == "{}"
B_connected(p) == "{\"state\":\"connected\",\"pid\":" \o ToString(p) \o "}"
B_connected_no_pid == "{\"state\":\"connected\"}"
B_error == "{\"state\":\"error\",\"message\":{\"message\":\"bad key\"}}"
B_error_no_message == "{\"state\":\"error\"}"
B_error_flat_message == "{\"state\":\"error\",\"message\":\"bad key\"}"

Streams ==
    { B_empty, B_undecodable, B_not_json, B_list, B_no_state, B_connected_no_pid,
      B_error, B_error_no_message, B_error_flat_message }
    \cup { B_connected(p) : p \in Pids }

\* bytes.decode(): the text, or UnicodeDecodeError (a ValueError)
decode(bytes) ==
    IF bytes = B_undecodable
    THEN [ok |-> FALSE, text |-> ""]
    ELSE [ok |-> TRUE, text |-> bytes]

\* json.loads(): the decoded value, or JSONDecodeError (a ValueError)
json_loads(text) ==
    CASE text = B_list -> [ok |-> TRUE, value |-> JList]
      [] text = B_no_state -> [ok |-> TRUE, value |-> JDict(<<>>)]
      [] text = B_connected_no_pid ->
            [ok |-> TRUE, value |-> JDict([state |-> JStr("connected")])]
      [] text = B_error ->
            [ok |-> TRUE,
             value |-> JDict([state |-> JStr("error"),
                              message |-> JDict([message |-> JStr("bad key")])])]
      [] text = B_error_no_message ->
            [ok |-> TRUE, value |-> JDict([state |-> JStr("error")])]
      [] text = B_error_flat_message ->
            [ok |-> TRUE,
             value |-> JDict([state |-> JStr("error"), message |-> JStr("bad key")])]
      [] \E p \in Pids : text = B_connected(p) ->
            [ok |-> TRUE,
             value |-> JDict([state |-> JStr("connected"),
                              pid |-> JInt(CHOOSE p \in Pids : text = B_connected(p))])]
      [] OTHER -> [ok |-> FALSE, value |-> JNull]

\* data[key] with a string key: KeyError on a dict without it, TypeError on
\* a list, a string or a number
subscript(data, key) ==
    IF data.t = "dict"
    THEN IF key \in DOMAIN data.d
         THEN [exc |-> NoExc, value |-> data.d[key]]
         ELSE [exc |-> Exc("KeyError", key), value |-> JNull]
    ELSE [exc |-> Exc("TypeError", data.t), value |-> JNull]

ParseErrorMessage(output_string) ==
    "Error parsing JSON output from daemon. Raw String = \"" \o output_string \o "\""

\* a mutant of the handshake decoding: stderr is preferred to stdout
handshake_stderr_first(out, err) ==
    LET raw == IF err # B_empty THEN err ELSE out
        loaded == json_loads(decode(raw).text)
        connected == loaded.ok /\ loaded.value.t = "dict"
                     /\ "pid" \in DOMAIN loaded.value.d
    IN  IF connected
        THEN [exc |-> NoExc, text |-> raw, pid_set |-> TRUE,
              pid |-> loaded.value.d["pid"], logged |-> NoExc]
        ELSE [exc |-> Exc("BrowserStackLocalError", ParseErrorMessage(raw)),
              text |-> raw, pid_set |-> FALSE, pid |-> JNull, logged |-> NoExc]

\* a mutant of the handshake decoding: a connected record without a pid is
\* accepted (data.get("pid"))
handshake_lenient_pid(out, err) ==
    LET raw == IF out # B_empty THEN out ELSE err
        loaded == json_loads(decode(raw).text)
        connected == loaded.ok /\ loaded.value.t = "dict"
                     /\ "state" \in DOMAIN loaded.value.d
                     /\ loaded.value.d["state"].v = "connected"
    IN  IF connected
        THEN [exc |-> NoExc, text |-> raw, pid_set |-> TRUE,
              pid |-> IF "pid" \in DOMAIN loaded.value.d
                      THEN loaded.value.d["pid"] ELSE JNull,
              logged |-> NoExc]
        ELSE [exc |-> Exc("BrowserStackLocalError", ParseErrorMessage(raw)),
              text |-> raw, pid_set |-> FALSE, pid |-> JNull, logged |-> NoExc]

\* the try block of start: the exception that leaves it, the text it decoded,
\* the pid it assigns and the error it logged
handshake(out, err) ==
    LET raw == IF out # B_empty THEN out ELSE err
        decoded == decode(raw)
        loaded == json_loads(decoded.text)
        data == loaded.value
        state == subscript(data, "state")
        message == subscript(data, "message")
        nested == subscript(message.value, "message")
        pid == subscript(data, "pid")
        fail(e, text, logged) ==
            [exc |-> e, text |-> text, pid_set |-> FALSE, pid |-> JNull,
             logged |-> logged]
        parse_error == Exc("BrowserStackLocalError", ParseErrorMessage(decoded.text))
    IN  IF ~decoded.ok
        \* UnicodeDecodeError is caught by "except ValueError", whose body reads
        \* output_string before any assignment to it
        THEN fail(Exc("UnboundLocalError", "output_string"), "", NoExc)
        ELSE IF ~loaded.ok
        THEN fail(parse_error, decoded.text, parse_error)
        ELSE IF state.exc # NoExc
        THEN fail(state.exc, decoded.text, NoExc)
        ELSE IF ~(state.value.t = "str" /\ state.value.v = "connected")
        THEN IF message.exc # NoExc THEN fail(message.exc, decoded.text, NoExc)
             ELSE IF nested.exc # NoExc THEN fail(nested.exc, decoded.text, NoExc)
             ELSE fail(Exc("BrowserStackLocalError", nested.value.v), decoded.text,
                       NoExc)
        ELSE IF pid.exc # NoExc
        THEN fail(pid.exc, decoded.text, NoExc)
        ELSE [exc |-> NoExc, text |-> decoded.text, pid_set |-> TRUE,
              pid |-> pid.value, logged |-> NoExc]

(***************************************************************************)
(* The singleton's fields.  pid.set is hasattr(self, "pid"); proc counts   *)
(* the children start has bound to self.proc (0: no handle yet).          *)
(***************************************************************************)
NoPid == [set |-> FALSE, value |-> JNull]

Blank ==
    [key |-> PyNone, options |-> <<>>, local_logfile_path |-> PyNone,
     binary_path |-> PyNone, pid |-> NoPid, proc |-> 0]

DefaultLogfile == PyStr("/cwd/local.log")

\* the body of LocalSingleton.__init__ run by the first construction
__init__(env, key, binary_path, kwargs) ==
    [key |-> IF env # PyNone THEN env ELSE key,
     options |-> kwargs,
     local_logfile_path |-> DefaultLogfile,
     binary_path |-> binary_path,
     pid |-> NoPid,
     proc |-> 0]

(***************************************************************************)
(* Faults of the environment while a command is built, spawned or waited   *)
(* for.  Every one is an Exception.                                        *)
(***************************************************************************)
Faults == {"none", "build", "spawn", "wait"}

FaultExc(fault) ==
    CASE fault = "build" -> Exc("RuntimeError", "get_package_version")
      [] fault = "spawn" -> Exc("OSError", "Popen")
      [] fault = "wait" -> Exc("OSError", "communicate")
      [] OTHER -> NoExc

\* subprocess.Popen(cmd, ...): TypeError when an argument is not a string,
\* OSError when the host cannot run the program
Popen(cmd, fault) ==
    IF \E i \in 1..Len(cmd) : cmd[i].t # "str"
    THEN Exc("TypeError", "expected str, bytes or os.PathLike object")
    ELSE IF fault = "spawn" THEN FaultExc("spawn")
    ELSE NoExc

\* what one call of start or stop did: the fields it leaves, the exception
\* that leaves it, whether it returned at the onlyCommand check, the command
\* of the child it spawned, the log file it truncated, the text it decoded,
\* whether it assigned self.pid, and the exception it logged
Outcome(s, exc, dry, cmd, truncated, text, recorded, logged) ==
    [self |-> s, exc |-> exc, dry |-> dry, cmd |-> cmd, truncated |-> truncated,
     text |-> text, recorded |-> recorded, logged |-> logged, events |-> <<>>]

\* the outcome r with the order of the steps the call took on the child
Ordered(r, events) == [r EXCEPT !.events = events]

\* a mutant of merge_kwargs: the keyword arguments replace self.options
merge_replacing(s, kwargs) == [s EXCEPT !.options = kwargs]

\* start, lines 111-112: the keyword arguments are merged into self.options
merge_kwargs(s, kwargs) == [s EXCEPT !.options = dict_update(s.options, kwargs)]

\* start, lines 114-116: a key option moves into self.key
take_key(s) ==
    IF dict_has(s.options, "key")
    THEN [s EXCEPT !.key = dict_get(s.options, "key"),
                   !.options = dict_del(s.options, "key")]
    ELSE s

\* a mutant of take_binarypath: a path already set is kept
take_binarypath_cached(s, binary) ==
    IF dict_has(s.options, "binarypath")
    THEN [s EXCEPT !.binary_path = dict_get(s.options, "binarypath"),
                   !.options = dict_del(s.options, "binarypath")]
    ELSE IF s.binary_path # PyNone THEN s
    ELSE [s EXCEPT !.binary_path = binary.path]

\* start, lines 118-122: the binary path is the binarypath option, or else
\* what the resolver returned
take_binarypath(s, binary) ==
    IF dict_has(s.options, "binarypath")
    THEN [s EXCEPT !.binary_path = dict_get(s.options, "binarypath"),
                   !.options = dict_del(s.options, "binarypath")]
    ELSE [s EXCEPT !.binary_path = binary.path]

\* a mutant of take_logfile: the option stays in the mapping
take_logfile_keeping_option(s) ==
    IF dict_has(s.options, "logfile")
    THEN [s EXCEPT !.local_logfile_path = dict_get(s.options, "logfile")]
    ELSE s

\* start, lines 124-126: a logfile option moves into self.local_logfile_path
take_logfile(s) ==
    IF dict_has(s.options, "logfile")
    THEN [s EXCEPT !.local_logfile_path = dict_get(s.options, "logfile"),
                   !.options = dict_del(s.options, "logfile")]
    ELSE s

\* start, lines 131-132
drop_source(s) == [s EXCEPT !.options = dict_del(s.options, "source")]

\* a mutant of record: the log file is truncated after the pid is assigned
record_truncating_on_success(s, cmd, hs) ==
    Ordered(Outcome(IF hs.pid_set
                    THEN [s EXCEPT !.pid = [set |-> TRUE, value |-> hs.pid]]
                    ELSE s,
                    hs.exc, FALSE, cmd,
                    IF hs.pid_set THEN s.local_logfile_path ELSE PyNone,
                    hs.text, hs.pid_set, hs.logged),
            <<"spawn", "read", "decode">>
            \o (IF hs.pid_set THEN <<"record", "truncate">> ELSE <<>>))

\* start, lines 139-160: the log file is truncated, the handshake hs decoded
\* and the pid assigned
record(s, cmd, hs) ==
    Ordered(Outcome(IF hs.pid_set
                    THEN [s EXCEPT !.pid = [set |-> TRUE, value |-> hs.pid]]
                    ELSE s,
                    hs.exc, FALSE, cmd, s.local_logfile_path, hs.text, hs.pid_set,
                    hs.logged),
            <<"spawn", "read", "truncate", "decode">>
            \o (IF hs.pid_set THEN <<"record">> ELSE <<>>))

\* start, lines 134-137: the child is spawned with the command built from s
\* and its output captured
launch(s, fault, out, err) ==
    IF fault = "build"
    THEN Outcome(s, FaultExc("build"), FALSE, <<>>, PyNone, "", FALSE, NoExc)
    ELSE IF Popen(_generate_cmd(s), fault) # NoExc
    THEN Outcome(s, Popen(_generate_cmd(s), fault), FALSE, <<>>, PyNone, "", FALSE,
                 NoExc)
    ELSE IF fault = "wait"
    THEN Ordered(Outcome([s EXCEPT !.proc = s.proc + 1], FaultExc("wait"), FALSE,
                         _generate_cmd(s), PyNone, "", FALSE, NoExc),
                 <<"spawn">>)
    ELSE record([s EXCEPT !.proc = s.proc + 1], _generate_cmd(s),
                handshake(out, err))

\* start, lines 128-160, s being the fields after the reserved options moved
after_options(s, kwargs, fault, out, err) ==
    IF dict_has(kwargs, "onlyCommand") /\ truthy(dict_get(kwargs, "onlyCommand"))
    THEN Outcome(s, NoExc, TRUE, <<>>, PyNone, "", FALSE, NoExc)
    ELSE launch(drop_source(s), fault, out, err)

\* start, lines 118-160, s being the fields after the key option moved
after_key(s, kwargs, binary, fault, out, err) ==
    IF ~dict_has(s.options, "binarypath") /\ ~binary.ok
    THEN Outcome(s, Exc("BinaryResolverError", "get_binary"), FALSE, <<>>,
                 PyNone, "", FALSE, NoExc)
    ELSE after_options(take_logfile(take_binarypath(s, binary)), kwargs, fault,
                       out, err)

\* LocalSingleton.start
start(s, kwargs, binary, fault, out, err) ==
    after_key(take_key(merge_kwargs(s, kwargs)), kwargs, binary, fault, out, err)

\* psutil.pid_exists(pid) on a host running the processes `host`
pid_exists(pid, host) == pid.n \in host

\* a mutant of is_running: the hasattr guard only
is_running_hasattr_only(s, host) == s.pid.set

\* LocalSingleton.is_running
is_running(s, host) == s.pid.set /\ pid_exists(s.pid.value, host)

\* "except Exception" of stop
caught_by_stop(exc) == TRUE

\* the exception raised inside the try block of stop
stop_failure(s, fault) ==
    IF fault = "build" THEN FaultExc("build")
    ELSE IF Popen(_generate_stop_cmd(s), fault) # NoExc
    THEN Popen(_generate_stop_cmd(s), fault)
    ELSE FaultExc(fault)

\* the command of the child stop spawned
stop_spawned(s, fault) ==
    IF fault = "build" \/ Popen(_generate_stop_cmd(s), fault) # NoExc
    THEN <<>>
    ELSE _generate_stop_cmd(s)

\* a mutant of stop: the handler catches OSError only
stop_catching_oserror(s, fault) ==
    Outcome(s,
            IF stop_failure(s, fault).cls \in {"none", "OSError"}
            THEN NoExc ELSE stop_failure(s, fault),
            FALSE, stop_spawned(s, fault), PyNone, "", FALSE,
            IF stop_failure(s, fault).cls = "OSError"
            THEN stop_failure(s, fault) ELSE NoExc)

\* a mutant of stop: the recorded pid is forgotten
stop_forgetting_pid(s, fault) ==
    Outcome([s EXCEPT !.pid = NoPid],
            NoExc, FALSE, stop_spawned(s, fault), PyNone, "", FALSE,
            stop_failure(s, fault))

\* LocalSingleton.stop
stop(s, fault) ==
    Outcome(s,
            IF caught_by_stop(stop_failure(s, fault))
            THEN NoExc ELSE stop_failure(s, fault),
            FALSE, stop_spawned(s, fault), PyNone, "", FALSE,
            IF caught_by_stop(stop_failure(s, fault))
            THEN stop_failure(s, fault) ELSE NoExc)

(***************************************************************************)
(* Scoped use.  The with statement calls __enter__, runs its body when     *)
(* __enter__ returned, then calls __exit__ and re-raises the body's        *)
(* exception unless __exit__ returned a true value.                        *)
(***************************************************************************)
\* LocalSingleton.__enter__
__enter__(s, binary, fault, out, err) ==
    [kwargs |-> s.options, call |-> start(s, s.options, binary, fault, out, err)]

\* a mutant of __exit__: stop is skipped when the body raised
exit_skipping_stop_on_error(s, raised, fault) ==
    [stops |-> IF raised THEN <<>> ELSE <<stop(s, fault)>>, suppress |-> FALSE]

\* LocalSingleton.__exit__: the stop calls it makes and the truth of its
\* return value (None)
__exit__(s, raised, fault) ==
    [stops |-> <<stop(s, fault)>>, suppress |-> truthy(PyNone)]

(***************************************************************************)
(* Inputs.                                                                 *)
(***************************************************************************)
Entry(k, v) == [k |-> k, v |-> v]

EnvKeys == {PyNone, PyStr("envkey")}

\* arguments of a construction: key, binary_path and the keyword options
Constructions ==
    { [key |-> PyNone, binary_path |-> PyNone, kwargs |-> <<>>],
      [key |-> PyStr("k1"), binary_path |-> PyStr("/opt/bs"), kwargs |-> <<>>],
      [key |-> PyStr("k1"), binary_path |-> PyNone,
       kwargs |-> <<Entry("key", PyStr("k2"))>>],
      [key |-> PyStr("k1"), binary_path |-> PyNone,
       kwargs |-> <<Entry("onlyCommand", PyTrue)>>],
      [key |-> PyStr("k1"), binary_path |-> PyNone,
       kwargs |-> <<Entry("force", PyFalse), Entry("logfile", PyStr("/tmp/bs.log"))>>] }

StartKwargs ==
    { <<>>,
      <<Entry("key", PyStr("k2"))>>,
      <<Entry("binarypath", PyStr("/opt/bs2"))>>,
      <<Entry("logfile", PyStr("/tmp/bs.log"))>>,
      <<Entry("onlyCommand", PyTrue)>>,
      <<Entry("onlyCommand", PyFalse)>>,
      <<Entry("source", PyStr("mine"))>>,
      <<Entry("force", PyTrue)>>,
      <<Entry("force", PyStr("TRUE"))>>,
      <<Entry("force", PyStr("false"))>>,
      <<Entry("force", PyNone)>>,
      <<Entry("proxyHost", PyStr("proxy.local"))>>,
      <<Entry("proxyPort", PyInt("8080"))>>,
      <<Entry("onlyCommand", PyTrue), Entry("proxyHost", PyStr("proxy.local"))>> }

\* outcomes of LocalBinary().get_binary()
Resolved == [ok |-> TRUE, path |-> PyStr("/home/.browserstack/BrowserStackLocal")]
Unresolved == [ok |-> FALSE, path |-> PyNone]

\* what the environment does during one start: the resolver's outcome, a
\* fault, the captured stdout and stderr.  What start never gets to read is
\* left empty.
Run(binary, fault, out, err) == [binary |-> binary, fault |-> fault, out |-> out, err |-> err]

Runs ==
    { Run(Unresolved, "none", B_empty, B_empty) }
    \cup { Run(Resolved, f, B_empty, B_empty) : f \in Faults \ {"none"} }
    \cup { Run(Resolved, "none", o, B_empty) : o \in Streams }
    \cup { Run(Resolved, "none", B_empty, e) :
             e \in {B_undecodable, B_not_json, B_error, B_connected(1)} }
    \cup { Run(Resolved, "none", B_not_json, B_connected(1)),
           Run(Resolved, "none", B_connected(1), B_not_json) }

\* the start calls of the model: every option mapping with a daemon that
\* connects, and every run of the environment with a plain or a dry-run call
StartCalls ==
    { [kwargs |-> kw, run |-> Run(Resolved, "none", B_connected(1), B_empty)] :
        kw \in StartKwargs }
    \cup { [kwargs |-> <<>>, run |-> r] : r \in Runs }
    \cup { [kwargs |-> <<Entry("onlyCommand", PyTrue)>>, run |-> r] :
             r \in { Run(Unresolved, "none", B_empty, B_empty),
                     Run(Resolved, "none", B_not_json, B_empty) } }

\* the runs of the environment met on entering a scope
ScopeRuns ==
    { Run(Unresolved, "none", B_empty, B_empty),
      Run(Resolved, "spawn", B_empty, B_empty),
      Run(Resolved, "none", B_not_json, B_empty),
      Run(Resolved, "none", B_error, B_empty),
      Run(Resolved, "none", B_connected(1), B_empty) }

Hosts == SUBSET Pids

(***************************************************************************)
(* State machine.                                                          *)
(***************************************************************************)
NoCall ==
    [op |-> "none", exc |-> NoExc, dry |-> FALSE, cmd |-> <<>>, truncated |-> PyNone,
     text |-> "", recorded |-> FALSE, out |-> B_empty, err |-> B_empty,
     result |-> FALSE, host |-> {}, pid_before |-> NoPid, kwargs |-> <<>>,
     logged |-> NoExc, events |-> <<>>, first |-> FALSE, key |-> PyNone,
     binary_path |-> PyNone]

\* the record of a call of start or stop made in state s with outcome r
Call(op, s, kwargs, r, out, err) ==
    [NoCall EXCEPT !.op = op, !.exc = r.exc, !.dry = r.dry, !.cmd = r.cmd,
                   !.truncated = r.truncated, !.text = r.text,
                   !.recorded = r.recorded, !.out = out, !.err = err,
                   !.pid_before = s.pid, !.kwargs = kwargs, !.logged = r.logged,
                   !.events = r.events]

\* the pid of a connected record on the stream start decodes
Reported(out, err) ==
    LET raw == IF out # B_empty THEN out ELSE err
    IN  IF \E p \in Pids : raw = B_connected(p)
        THEN [set |-> TRUE, value |-> JInt(CHOOSE p \in Pids : raw = B_connected(p))]
        ELSE NoPid

NoScope == [pc |-> "outside", trace |-> <<>>, kwargs |-> <<>>, options |-> <<>>]

\* the class attributes: _instance (0 is None, else the number of the object),
\* and the counts of the objects created and of the runs of the body of __init__
NoInstance == [instance |-> 0, created |-> 0, inits |-> 0]

\* a thread: its place in LocalSingleton(...), the arguments of its call,
\* the test it read under the lock, the object its call returned, and whether
\* it created an object and ran the body of __init__
Idle ==
    [pc |-> "idle", args |-> [key |-> PyNone, binary_path |-> PyNone, kwargs |-> <<>>],
     saw |-> FALSE, ret |-> 0, made |-> FALSE, ran |-> FALSE]

\* the history of the options supplied: the most recent logfile option of a
\* start, the most recent logfile option of the construction or a start, and
\* the most recent value of every option
NoHist == [logfile_start |-> PyNone, logfile |-> PyNone, supplied |-> <<>>]

Supplied(h, kwargs, by_start) ==
    [logfile_start |-> IF by_start /\ dict_has(kwargs, "logfile")
                       THEN dict_get(kwargs, "logfile") ELSE h.logfile_start,
     logfile |-> IF dict_has(kwargs, "logfile")
                 THEN dict_get(kwargs, "logfile") ELSE h.logfile,
     supplied |-> dict_update(h.supplied, kwargs)]

\* the body of LocalSingleton.__new__ under the lock
__new__(c) ==
    IF c.instance = 0
    THEN [c EXCEPT !.created = c.created + 1, !.instance = c.created + 1]
    ELSE c

\* a mutant of the guard of __init__: the body runs at every construction
init_guard_missing(init) == TRUE

\* the test "if not self.__initialized" of __init__
init_guard(init) == ~init

Init ==
    /\ environ \in EnvKeys
    /\ klass = NoInstance
    /\ lock = 0
    /\ threads = <<>>
    /\ hist = NoHist
    /\ initialized = FALSE
    /\ self = Blank
    /\ last = NoCall
    /\ lastConnected = NoPid
    /\ scope = NoScope
    /\ ops = 0

\* LocalSingleton(key, binary_path, **kwargs)
Construct(key, binary_path, kwargs) ==
    /\ ops < MaxOps
    /\ ops' = ops + 1
    /\ klass' = [__new__(klass) EXCEPT
                   !.inits = IF init_guard(initialized)
                             THEN klass.inits + 1 ELSE klass.inits]
    /\ initialized' = TRUE
    /\ self' = IF init_guard(initialized)
               THEN __init__(environ, key, binary_path, kwargs)
               ELSE self
    /\ last' = [NoCall EXCEPT !.op = "init", !.pid_before = self.pid,
                              !.first = ~initialized, !.key = key,
                              !.binary_path = binary_path, !.kwargs = kwargs,
                              !.result = (__new__(klass).instance = 1)]
    /\ hist' = IF init_guard(initialized) THEN Supplied(hist, kwargs, FALSE) ELSE hist
    /\ UNCHANGED <<environ, lock, threads, lastConnected, scope>>

\* the ghost lastConnected follows the handshakes start has decoded
Decoded(r, out, err) ==
    IF r.truncated # PyNone /\ r.exc = NoExc /\ Reported(out, err).set
    THEN Reported(out, err)
    ELSE lastConnected

\* the fields, the call record and the ghost after a start with outcome r
Started(r, kwargs, out, err) ==
    /\ self' = r.self
    /\ last' = Call("start", self, kwargs, r, out, err)
    /\ lastConnected' = Decoded(r, out, err)
    /\ hist' = Supplied(hist, kwargs, TRUE)

Start(kwargs, binary, fault, out, err) ==
    /\ initialized
    /\ ops < MaxOps
    /\ ops' = ops + 1
    /\ Started(start(self, kwargs, binary, fault, out, err), kwargs, out, err)
    /\ UNCHANGED <<environ, klass, lock, threads, initialized, scope>>

IsRunning(host) ==
    /\ initialized
    /\ ops < MaxOps
    /\ ops' = ops + 1
    /\ last' = [NoCall EXCEPT !.op = "is_running", !.result = is_running(self, host),
                              !.host = host, !.pid_before = self.pid]
    /\ UNCHANGED <<environ, klass, lock, threads, initialized, self, lastConnected,
                   hist, scope>>

\* the fields and the call record after a stop with outcome r
Stopped(r) ==
    /\ self' = r.self
    /\ last' = Call("stop", self, <<>>, r, B_empty, B_empty)

Stop(fault) ==
    /\ initialized
    /\ ops < MaxOps
    /\ ops' = ops + 1
    /\ Stopped(stop(self, fault))
    /\ UNCHANGED <<environ, klass, lock, threads, initialized, lastConnected, hist,
                   scope>>

\* the with statement after __enter__ did e: the body runs when start returned
Entered(e, out, err) ==
    /\ Started(e.call, e.kwargs, out, err)
    /\ scope' = [pc |-> IF e.call.exc = NoExc THEN "body" ELSE "outside",
                 trace |-> IF e.call.exc = NoExc
                           THEN <<"start returned">>
                           ELSE <<"start raised", "propagate">>,
                 kwargs |-> e.kwargs,
                 options |-> self.options]

\* with LocalSingleton() as local: ...   up to the first statement of the body
ScopeEnter(binary, fault, out, err) ==
    /\ initialized
    /\ scope.pc = "outside"
    /\ ops < MaxOps
    /\ ops' = ops + 1
    /\ Entered(__enter__(self, binary, fault, out, err), out, err)
    /\ UNCHANGED <<environ, klass, lock, threads, initialized>>

\* the with statement after __exit__ did x: the exception of the body is
\* raised again unless __exit__ returned a true value
Left(x, raised) ==
    /\ IF x.stops = <<>>
       THEN /\ self' = self
            /\ last' = [NoCall EXCEPT !.op = "exit", !.pid_before = self.pid]
       ELSE Stopped(x.stops[Len(x.stops)])
    /\ scope' = [scope EXCEPT
                   !.pc = "outside",
                   !.trace = scope.trace
                             \o <<IF raised THEN "body raised" ELSE "body returned">>
                             \o [i \in 1..Len(x.stops) |-> "stop"]
                             \o <<IF \E i \in 1..Len(x.stops) : x.stops[i].exc # NoExc
                                  THEN "propagate stop error"
                                  ELSE IF raised /\ ~x.suppress THEN "propagate"
                                  ELSE "complete">>]

\* the body of the with statement ends, normally or by raising
ScopeLeave(raised, fault) ==
    /\ scope.pc = "body"
    /\ ops < MaxOps
    /\ ops' = ops + 1
    /\ Left(__exit__(self, raised, fault), raised)
    /\ UNCHANGED <<environ, klass, lock, threads, initialized, lastConnected, hist>>

Next ==
    \/ \E c \in Constructions : Construct(c.key, c.binary_path, c.kwargs)
    \/ \E c \in StartCalls :
          Start(c.kwargs, c.run.binary, c.run.fault, c.run.out, c.run.err)
    \/ \E host \in Hosts : IsRunning(host)
    \/ \E fault \in Faults : Stop(fault)
    \/ \E r \in ScopeRuns : ScopeEnter(r.binary, r.fault, r.out, r.err)
    \/ \E raised \in BOOLEAN, fault \in {"none", "spawn"} : ScopeLeave(raised, fault)

Spec == Init /\ [][Next]_vars

(***************************************************************************)
(* Threads of one process constructing LocalSingleton concurrently.  A     *)
(* step is one statement of __new__ or __init__; a thread whose            *)
(* construction returned calls start and stop on the object.               *)
(***************************************************************************)
Threads == 1..MaxThreads

\* a mutant of the lock: acquire never waits
lock_ignored(l) == TRUE

\* Lock.acquire() returns when no thread holds the lock
lock_free(l) == l = 0

InitThreads ==
    /\ environ \in EnvKeys
    /\ klass = NoInstance
    /\ lock = 0
    /\ threads = [t \in Threads |-> Idle]
    /\ hist = NoHist
    /\ initialized = FALSE
    /\ self = Blank
    /\ last = NoCall
    /\ lastConnected = NoPid
    /\ scope = NoScope
    /\ ops = 0

\* the calls the threads make: constructions with and without arguments, a
\* start whose daemon connects and one whose resolver fails
ThreadConstructions == { c \in Constructions : c.kwargs = <<>> }

ThreadStartCalls ==
    { c \in StartCalls :
        /\ c.kwargs = <<>>
        /\ c.run \in { Run(Resolved, "none", B_connected(1), B_empty),
                        Run(Unresolved, "none", B_empty, B_empty) } }

\* thread t moves to pc
Goto(t, pc) == threads' = [threads EXCEPT ![t].pc = pc]

\* thread t calls LocalSingleton(key, binary_path, **kwargs)
ThreadCall(t, c) ==
    /\ threads[t].pc \in {"idle", "returned"}
    /\ ops < MaxOps
    /\ ops' = ops + 1
    /\ threads' = [threads EXCEPT ![t].pc = "new_lock", ![t].args = c, ![t].ret = 0]
    /\ UNCHANGED <<environ, klass, lock, initialized, self, last, lastConnected,
                   hist, scope>>

\* __new__, line 27, and __init__, line 39: with cls._lock
Acquire(t) ==
    /\ threads[t].pc \in {"new_lock", "init_lock"}
    /\ lock_free(lock)
    /\ lock' = t
    /\ Goto(t, IF threads[t].pc = "new_lock" THEN "new_check" ELSE "init_check")
    /\ UNCHANGED <<environ, klass, initialized, self, last, lastConnected, hist,
                   scope, ops>>

\* __new__, line 28: if cls._instance is None
NewCheck(t) ==
    /\ threads[t].pc = "new_check"
    /\ threads' = [threads EXCEPT ![t].pc = "new_create",
                                  ![t].saw = (klass.instance = 0)]
    /\ UNCHANGED <<environ, klass, lock, initialized, self, last, lastConnected,
                   hist, scope, ops>>

\* __new__, lines 29-30: the object is created with __initialized False, and
\* the lock released at the end of the with block
NewCreate(t) ==
    /\ threads[t].pc = "new_create"
    /\ klass' = IF threads[t].saw
                THEN [klass EXCEPT !.created = klass.created + 1,
                                   !.instance = klass.created + 1]
                ELSE klass
    /\ initialized' = IF threads[t].saw THEN FALSE ELSE initialized
    /\ self' = IF threads[t].saw THEN Blank ELSE self
    /\ lock' = 0
    /\ threads' = [threads EXCEPT ![t].pc = "new_return",
                                  ![t].made = threads[t].made \/ threads[t].saw]
    /\ UNCHANGED <<environ, last, lastConnected, hist, scope, ops>>

\* __new__, line 31: return cls._instance
NewReturn(t) ==
    /\ threads[t].pc = "new_return"
    /\ threads' = [threads EXCEPT ![t].pc = "init_lock", ![t].ret = klass.instance]
    /\ UNCHANGED <<environ, klass, lock, initialized, self, last, lastConnected,
                   hist, scope, ops>>

\* __init__, line 40: if not self.__initialized
InitCheck(t) ==
    /\ threads[t].pc = "init_check"
    /\ threads' = [threads EXCEPT ![t].pc = "init_fields",
                                  ![t].saw = init_guard(initialized)]
    /\ UNCHANGED <<environ, klass, lock, initialized, self, last, lastConnected,
                   hist, scope, ops>>

\* __init__, lines 41-44: the four fields are assigned
InitFields(t) ==
    /\ threads[t].pc = "init_fields"
    /\ self' = IF threads[t].saw
               THEN __init__(environ, threads[t].args.key,
                             threads[t].args.binary_path, threads[t].args.kwargs)
               ELSE self
    /\ hist' = IF threads[t].saw
               THEN Supplied(hist, threads[t].args.kwargs, FALSE)
               ELSE hist
    /\ klass' = IF threads[t].saw
                THEN [klass EXCEPT !.inits = klass.inits + 1]
                ELSE klass
    /\ threads' = [threads EXCEPT ![t].pc = "init_flag",
                                  ![t].ran = threads[t].ran \/ threads[t].saw]
    /\ UNCHANGED <<environ, lock, initialized, last, lastConnected, scope, ops>>

\* __init__, line 45 and the end of the with block: the flag is set and the
\* lock released; LocalSingleton(...) returns the object
InitFlag(t) ==
    /\ threads[t].pc = "init_flag"
    /\ initialized' = (initialized \/ threads[t].saw)
    /\ lock' = 0
    /\ Goto(t, "returned")
    /\ UNCHANGED <<environ, klass, self, last, lastConnected, hist, scope, ops>>

\* a thread that holds the object calls start
ThreadStart(t, kwargs, binary, fault, out, err) ==
    /\ threads[t].pc = "returned"
    /\ Start(kwargs, binary, fault, out, err)

\* a thread that holds the object calls stop
ThreadStop(t, fault) ==
    /\ threads[t].pc = "returned"
    /\ Stop(fault)

NextThreads ==
    \/ \E t \in Threads, c \in ThreadConstructions : ThreadCall(t, c)
    \/ \E t \in Threads : Acquire(t)
    \/ \E t \in Threads : NewCheck(t)
    \/ \E t \in Threads : NewCreate(t)
    \/ \E t \in Threads : NewReturn(t)
    \/ \E t \in Threads : InitCheck(t)
    \/ \E t \in Threads : InitFields(t)
    \/ \E t \in Threads : InitFlag(t)
    \/ \E t \in Threads, c \in ThreadStartCalls :
          ThreadStart(t, c.kwargs, c.run.binary, c.run.fault, c.run.out, c.run.err)
    \/ \E t \in Threads, fault \in {"none", "spawn"} : ThreadStop(t, fault)

SpecThreads == InitThreads /\ [][NextThreads]_vars

(***************************************************************************)
(* Vocabulary of the properties.                                           *)
(***************************************************************************)
\* the last operation was a start, directly or on entering a scope
StartCalled == last.op = "start"

\* the last start raised
StartRaised == StartCalled /\ last.exc # NoExc

\* the last start returned normally
StartReturned == StartCalled /\ last.exc = NoExc

\* the last start spawned the daemon and read its handshake
HandshakeRead == StartCalled /\ last.cmd # <<>> /\ last.truncated # PyNone

\* the bytes the last start took as the handshake
Raw == IF last.out # B_empty THEN last.out ELSE last.err

\* the call was made with a truthy onlyCommand keyword
DryRunRequested ==
    dict_has(last.kwargs, "onlyCommand") /\ truthy(dict_get(last.kwargs, "onlyCommand"))

\* bytes that are not valid structured data
NotStructured(bytes) == ~decode(bytes).ok \/ ~json_loads(decode(bytes).text).ok

\* bytes that decode to a record whose state field is not "connected"
Rejection(bytes) ==
    bytes \in {B_error, B_error_no_message, B_error_flat_message}

(***************************************************************************)
(* C1.  After a start that raised, the singleton has no recorded process   *)
(* identifier, also when an earlier start succeeded.                       *)
(***************************************************************************)
C1_FailedStartLeavesNoPid == StartRaised => ~self.pid.set

(***************************************************************************)
(* C2.  Every start either returns normally having recorded the pid of its *)
(* own handshake, or raises having recorded none.                          *)
(***************************************************************************)
C2_EveryStartRecordsOrRaises ==
    StartCalled =>
        IF last.exc = NoExc
        THEN Reported(last.out, last.err).set /\ last.cmd # <<>>
             /\ self.pid = Reported(last.out, last.err)
        ELSE self.pid = last.pid_before

\* C2 as amended: every start called without a truthy onlyCommand keyword
\* either returns normally having recorded the pid of its own handshake, or
\* raises leaving the pid field as it was; a start with a truthy onlyCommand
\* keyword leaves the pid field as it was, whether it returns or raises.
C2_NoPartialSuccess ==
    StartCalled =>
        IF last.exc = NoExc /\ ~DryRunRequested
        THEN Reported(last.out, last.err).set /\ last.cmd # <<>>
             /\ self.pid = Reported(last.out, last.err)
        ELSE self.pid = last.pid_before

C2_Witness ==
    /\ StartRaised /\ HandshakeRead /\ ~DryRunRequested
    /\ last.pid_before.set

(***************************************************************************)
(* C3.  A start whose handshake is a connected record with pid p returns   *)
(* normally with p recorded; the pid field is absent until a start has     *)
(* succeeded and otherwise is the pid of the most recent successful        *)
(* start's handshake.                                                      *)
(***************************************************************************)
C3_PidIsLastConnected ==
    /\ (HandshakeRead /\ Reported(last.out, last.err).set) =>
           (last.exc = NoExc /\ self.pid = Reported(last.out, last.err))
    /\ self.pid = lastConnected

C3_Witness ==
    /\ HandshakeRead /\ StartReturned
    /\ last.pid_before.set /\ self.pid.set /\ self.pid # last.pid_before

(***************************************************************************)
(* C4.  stop never raises.                                                 *)
(***************************************************************************)
C4_StopNeverRaises == last.op = "stop" => last.exc = NoExc

C4_Witness ==
    /\ last.op = "stop" /\ last.logged.cls = "TypeError"
    /\ self.binary_path = PyNone

(***************************************************************************)
(* C5.  Entering a scope calls start with the configured options.  When    *)
(* start raised, the body does not run and stop is not called.  When it    *)
(* returned, leaving the body calls stop exactly once, and an exception of *)
(* the body propagates after it.                                           *)
(***************************************************************************)
C5_ScopedUse ==
    scope.trace # <<>> =>
        /\ scope.kwargs = scope.options
        /\ IF scope.pc = "body"
           THEN scope.trace = <<"start returned">>
           ELSE scope.trace \in
                  { <<"start raised", "propagate">>,
                    <<"start returned", "body returned", "stop", "complete">>,
                    <<"start returned", "body raised", "stop", "propagate">> }

C5_Witness ==
    /\ scope.trace = <<"start returned", "body raised", "stop", "propagate">>
    /\ scope.kwargs # <<>>
    /\ last.logged # NoExc

(***************************************************************************)
(* C6.  is_running() is true exactly when a start has succeeded and a      *)
(* process with the pid of the most recent successful start exists.        *)
(***************************************************************************)
C6_IsRunning ==
    last.op = "is_running" =>
        last.result = (lastConnected.set /\ lastConnected.value.n \in last.host)

C6_Witness == last.op = "is_running" /\ last.result /\ last.host # Pids

(***************************************************************************)
(* C7.  A handshake that decodes to a record whose state is not            *)
(* "connected" makes start raise BrowserStackLocalError with the nested    *)
(* message text, and no pid is recorded.                                   *)
(***************************************************************************)
C7_RejectionError ==
    (HandshakeRead /\ Rejection(Raw)) =>
        /\ last.exc = Exc("BrowserStackLocalError", "bad key")
        /\ self.pid = last.pid_before

(***************************************************************************)
(* C8.  The handshake text is stdout when non-empty and stderr otherwise;  *)
(* when it is not valid structured data start raises the parse error       *)
(* carrying the raw text, and no pid is recorded.                          *)
(***************************************************************************)
C8_ParseError ==
    (HandshakeRead /\ NotStructured(Raw)) =>
        /\ last.exc = Exc("BrowserStackLocalError", ParseErrorMessage(Raw))
        /\ self.pid = last.pid_before

(***************************************************************************)
(* C9.  The stop command is the start command of the same state with the   *)
(* token at index 2 changed from "start" to "stop".                        *)
(***************************************************************************)
C9_StopCommand ==
    initialized =>
        LET c == _generate_cmd(self)
            t == _generate_stop_cmd(self)
        IN  /\ Len(t) = Len(c)
            /\ c[3] = PyStr("start")
            /\ t[3] = PyStr("stop")
            /\ \A i \in 1..Len(c) : i # 3 => t[i] = c[i]
            /\ (last.op = "stop" /\ last.cmd # <<>>) =>
                   /\ Len(last.cmd) = Len(c)
                   /\ last.cmd[3] = PyStr("stop")
                   /\ \A i \in 1..Len(c) : i # 3 => last.cmd[i] = c[i]

C9_Witness ==
    /\ last.op = "stop" /\ last.cmd # <<>>
    /\ Len(last.cmd) > 9

(***************************************************************************)
(* C10.  An option whose value's string form is "true" (any case) gives    *)
(* the one token -key, "false" gives no token, any other value gives the   *)
(* two tokens -key and the value's string form.                            *)
(***************************************************************************)
C10_ArgumentBuilder ==
    \A i \in 1..Len(self.options) :
        LET o == self.options[i]
            tokens == option_tokens(<<o>>)
        IN  IF lower(str(o.v)) = "true" THEN tokens = <<PyStr("-" \o o.k)>>
            ELSE IF lower(str(o.v)) = "false" THEN tokens = <<>>
            ELSE tokens = <<PyStr("-" \o o.k), PyStr(str(o.v))>>

(***************************************************************************)
(* C11.  Every construction returns the one instance of the process, and a *)
(* construction made after the first leaves the key, the option mapping,   *)
(* the log file path and the binary path (and every other field) as they   *)
(* were, whatever its arguments and whatever start calls changed between.  *)
(***************************************************************************)
C11_ConstructionIdempotent ==
    [][(ops' # ops /\ last'.op = "init")
       => /\ klass'.created = 1
          /\ klass'.instance = 1
          /\ last'.result
          /\ (initialized => self' = self /\ klass' = klass)]_vars

\* a second construction with another key and binary path, after a start
\* replaced the binary path and the log file path and recorded a pid
C11_Witness ==
    /\ last.op = "init"
    /\ ~last.first
    /\ last.key # self.key
    /\ last.binary_path # self.binary_path
    /\ dict_has(last.kwargs, "logfile")
    /\ self.binary_path = Resolved.path
    /\ self.pid.set

(***************************************************************************)
(* C12, as stated.  At the first construction an explicit key argument is  *)
(* the access-key field, whatever the environment variable holds.          *)
(***************************************************************************)
C12_ExplicitKeyWins ==
    (last.op = "init" /\ last.first /\ last.key # PyNone) => self.key = last.key

(***************************************************************************)
(* C13, as stated.  A start that runs while a truthy onlyCommand option is *)
(* in the configuration (from this call, an earlier start or the           *)
(* construction) spawns no child, truncates no log file and records no     *)
(* process identifier.                                                     *)
(***************************************************************************)
C13_DryRunWheneverConfigured ==
    (/\ StartCalled
     /\ dict_has(self.options, "onlyCommand")
     /\ truthy(dict_get(self.options, "onlyCommand")))
    => /\ last.cmd = <<>>
       /\ last.truncated = PyNone
       /\ ~last.recorded

(***************************************************************************)
(* C14, as stated.  A start that fails after the child was launched and    *)
(* its output read fails with the domain error BrowserStackLocalError,     *)
(* whatever the handshake bytes.                                           *)
(***************************************************************************)
C14_OnlyDomainErrors ==
    (HandshakeRead /\ StartRaised) => last.exc.cls = "BrowserStackLocalError"

(***************************************************************************)
(* C15.  Under every interleaving of the threads' constructions at most    *)
(* one object is created, every construction returns it, the body of       *)
(* __init__ runs exactly once, no construction returns before the fields   *)
(* are assigned, and a start or stop never takes or releases the lock.     *)
(***************************************************************************)
C15_OneInstance ==
    /\ klass.created <= 1
    /\ klass.inits <= 1
    /\ \A t \in Threads :
          /\ threads[t].ret \in {0, klass.instance}
          /\ threads[t].pc = "returned"
             => /\ threads[t].ret = 1
                /\ klass.inits = 1
                /\ initialized
                /\ self.local_logfile_path # Blank.local_logfile_path

C15_ConcurrentConstruction ==
    [][/\ C15_OneInstance'
       /\ (ops' # ops /\ last'.op \in {"start", "stop"}) => lock' = lock]_vars

\* two threads constructed with different arguments; one created the object
\* and the other ran the body of __init__
C15_Witness ==
    \E t, u \in Threads :
        /\ t # u
        /\ threads[t].pc = "returned" /\ threads[u].pc = "returned"
        /\ threads[t].args # threads[u].args
        /\ threads[t].made /\ threads[u].ran

(***************************************************************************)
(* C16.  A stop, whether its command ran or its failure was swallowed,     *)
(* leaves the access key, the binary path, the log file path, the option   *)
(* mapping, the child handle of start and the recorded pid as they were;   *)
(* is_running after it is pid_exists of the pid start recorded.            *)
(***************************************************************************)
C16_StopChangesNothing ==
    [][(ops' # ops /\ last'.op = "stop")
       => /\ self' = self
          /\ \A host \in Hosts : is_running(self', host) = is_running(self, host)]_vars

\* a stop that swallowed a failure after a start recorded a pid
C16_Witness ==
    /\ last.op = "stop"
    /\ last.logged.cls = "OSError"
    /\ self.pid.set
    /\ self.proc > 0

\* the number of times step e occurs in the steps of a call
Times(events, e) == Cardinality({ i \in DOMAIN events : events[i] = e })

\* every step a comes before every step b
Precedes(events, a, b) ==
    \A i, j \in DOMAIN events : (events[i] = a /\ events[j] = b) => i < j

\* the truncation of the last start, its path being the option logfile or
\* else the default path
TruncationOrder(logfile) ==
    StartCalled
    => IF "read" \in { last.events[i] : i \in DOMAIN last.events }
       THEN /\ Times(last.events, "truncate") = 1
            /\ Precedes(last.events, "read", "truncate")
            /\ Precedes(last.events, "truncate", "decode")
            /\ Precedes(last.events, "truncate", "record")
            /\ last.truncated = IF logfile # PyNone THEN logfile ELSE DefaultLogfile
       ELSE /\ Times(last.events, "truncate") = 0
            /\ last.truncated = PyNone

(***************************************************************************)
(* C17.  A start that spawned the daemon and read its handshake truncated  *)
(* the log file exactly once, after the read and before the decoding and   *)
(* the recording of the pid, whatever the handshake; the path is the       *)
(* logfile option of this or an earlier start, or else the default path.   *)
(* A start that did not launch the daemon truncated nothing.               *)
(***************************************************************************)
C17_TruncatesStartLogfile == TruncationOrder(hist.logfile_start)

\* C17 as amended: the same, the path being the logfile option most recently
\* supplied, at the construction or to a start, or else the default path.
C17_TruncatesSuppliedLogfile == TruncationOrder(hist.logfile)

\* a start with no logfile keyword whose daemon rejected the connection
\* truncated the log file named at the construction
C17_Witness ==
    /\ StartCalled
    /\ last.events = <<"spawn", "read", "truncate", "decode">>
    /\ last.exc # NoExc
    /\ hist.logfile_start = PyNone
    /\ last.truncated = PyStr("/tmp/bs.log")

(***************************************************************************)
(* C18.  After a start that got past the binary resolution the option      *)
(* mapping has no key, binarypath or logfile entry, and the command of the *)
(* child it launched has none of the tokens -key, -binarypath, -logfile    *)
(* and -source, whatever options the construction and the starts supplied. *)
(***************************************************************************)
C18_ReservedKeysNotEmitted ==
    (StartCalled /\ last.exc.cls # "BinaryResolverError")
    => /\ \A k \in {"key", "binarypath", "logfile"} : ~dict_has(self.options, k)
       /\ \A i \in DOMAIN last.cmd :
             last.cmd[i] \notin { PyStr("-key"), PyStr("-binarypath"),
                                  PyStr("-logfile"), PyStr("-source") }

\* a start launched the daemon after a logfile option was given at the
\* construction and a source option to the start
C18_Witness ==
    /\ StartCalled
    /\ last.cmd # <<>>
    /\ dict_has(hist.supplied, "logfile")
    /\ dict_has(hist.supplied, "source")

(***************************************************************************)
(* C19.  The binary path a start uses is the binarypath option of the      *)
(* merged mapping when there is one, and otherwise the result of the       *)
(* resolver, which replaces the path of the construction or of an earlier  *)
(* binarypath option.  When the resolver fails its error leaves start as   *)
(* it is, no child is launched, no log file truncated and the recorded pid *)
(* is unchanged.                                                           *)
(***************************************************************************)
\* the call used path as the program of the child it launched, if any
UsedBinary(s, call, path) ==
    /\ s.binary_path = path
    /\ call.cmd # <<>> => call.cmd[1] = path

C19_ResolutionEveryStart ==
    [][(ops' # ops /\ last'.op = "start")
       => IF dict_has(dict_update(self.options, last'.kwargs), "binarypath")
          THEN UsedBinary(self', last',
                          dict_get(dict_update(self.options, last'.kwargs),
                                   "binarypath"))
          ELSE IF last'.exc.cls = "BinaryResolverError"
          THEN /\ last'.exc = Exc("BinaryResolverError", "get_binary")
               /\ last'.cmd = <<>>
               /\ last'.truncated = PyNone
               /\ self'.pid = self.pid
               /\ self'.binary_path = self.binary_path
          ELSE UsedBinary(self', last', Resolved.path)]_vars

\* a start without a binarypath option launched the resolver's binary after
\* an earlier start was given a binarypath option
C19_Witness ==
    /\ StartCalled
    /\ last.cmd # <<>>
    /\ last.cmd[1] = Resolved.path
    /\ dict_has(hist.supplied, "binarypath")

(***************************************************************************)
(* C20.  After the construction and any starts, the option mapping holds,  *)
(* for every non-reserved key ever supplied, the value of the most recent  *)
(* call that supplied it, and no other non-reserved key; the commands of   *)
(* start and stop are built from that mapping, and an option whose value   *)
(* is None gives no tokens.                                                *)
(***************************************************************************)
\* the option names start treats specially
ReservedKeys == {"key", "binarypath", "logfile", "onlyCommand", "source"}

\* the options of the mapping that have a value
WithoutNone(options) == SelectSeq(options, LAMBDA e : e.v # PyNone)

C20_OptionsAccumulate ==
    initialized
    => /\ \A k \in dict_keys(hist.supplied) \ ReservedKeys :
             /\ dict_has(self.options, k)
             /\ dict_get(self.options, k) = dict_get(hist.supplied, k)
       /\ dict_keys(self.options) \ ReservedKeys \subseteq dict_keys(hist.supplied)
       /\ last.cmd # <<>>
          => SubSeq(last.cmd, 10, Len(last.cmd)) = option_tokens(self.options)
       /\ option_tokens(self.options) = option_tokens(WithoutNone(self.options))
       /\ \A i \in DOMAIN self.options :
             self.options[i].v = PyNone => option_tokens(<<self.options[i]>>) = <<>>

\* the mapping holds a proxyHost option and a force option of value None,
\* one of them from an earlier call, and a start or stop built its command
\* from it
C20_Witness ==
    /\ last.cmd # <<>>
    /\ Len(last.kwargs) <= 1
    /\ dict_has(self.options, "proxyHost")
    /\ dict_has(self.options, "force")
    /\ dict_get(self.options, "force") = PyNone

====
